---- MODULE Spec2Model ----
(***************************************************************************)
(* Model of the Feishu task plugin (tools/feishu_task): the input helper   *)
(* normalize_list, the time conversion FeishuRequestV2.to_timestamp_str,   *)
(* the HTTP client FeishuRequestV2 and the entry points built on it (auth  *)
(* and the tools).                                                         *)
(*                                                                         *)
(* Python strings are sequences of one-character strings.  Python values   *)
(* are records [t |-> type, v |-> payload].                                *)
(***************************************************************************)
EXTENDS Integers, Sequences, FiniteSets, TLC

VARIABLES
    fn,        \* pure helper under call: "none", "normalize_list", "to_timestamp_str"
    input,     \* its arguments
    gen,       \* how the time string argument was produced (history, never read by the code)
    phase,     \* "ready" before the helper ran, "done" after
    out,       \* its outcome
    pc,        \* position of the running invocation: "idle", "await_token", "await_main", "done"
    entry,     \* the entry point invoked: a client operation, auth or a tool
    args,      \* the entry point's arguments
    client,    \* the FeishuRequestV2 object: app_id, app_secret, tz
    call,      \* the client operation running and the arguments it was called with
    pending,   \* the operation's own request while the token is being fetched
    reqs,      \* HTTP requests issued by the invocation, in order
    resps,     \* the responses received, in order
    result,    \* outcome of the client operation
    tool       \* what the entry point emitted: messages, escaped exception

pureVars == <<fn, input, gen, phase, out>>
httpVars == <<pc, entry, args, client, call, pending, reqs, resps, result, tool>>
vars == <<fn, input, gen, phase, out, pc, entry, args, client, call, pending, reqs, resps, result, tool>>

\* ---------------------------------------------------------------- bounds
\* longest text given to normalize_list, letter by letter
MaxLen == 4
\* longest list given to normalize_list
MaxElems == 2
\* longest id list given to a client operation called directly
MaxIds == 2

\* ------------------------------------------------------- python values
PyNone == [t |-> "none", v |-> <<>>]
PyS(s) == [t |-> "str", v |-> s]
PyInt(n) == [t |-> "int", v |-> n]
PyBool(b) == [t |-> "bool", v |-> b]
PyList(xs) == [t |-> "list", v |-> xs]
PyDict(kvs) == [t |-> "dict", v |-> kvs]

\* how a call ended: a returned value, or a raised exception (type and message)
Returned(x) == [kind |-> "return", val |-> x, exc |-> "none", msg |-> ""]
Raised(e, m) == [kind |-> "raise", val |-> PyNone, exc |-> e, msg |-> m]
NoOutcome == [kind |-> "none", val |-> PyNone, exc |-> "none", msg |-> ""]

\* ------------------------------------------------------------- strings
Whitespace == {" ", "\n", "\t", "\r"}
Digits == <<"0", "1", "2", "3", "4", "5", "6", "7", "8", "9">>
DigitSet == {Digits[i] : i \in 1..10}
DigitVal(c) == (CHOOSE i \in 1..10 : Digits[i] = c) - 1

RECURSIVE Concat(_)
Concat(ss) == IF ss = <<>> THEN <<>> ELSE Head(ss) \o Concat(Tail(ss))

RECURSIVE Join(_, _)
Join(ss, sep) ==
    IF ss = <<>> THEN <<>>
    ELSE IF Len(ss) = 1 THEN ss[1]
    ELSE ss[1] \o sep \o Join(Tail(ss), sep)

\* str.strip(): drop leading and trailing whitespace
RECURSIVE LStrip(_)
LStrip(s) == IF s # <<>> /\ Head(s) \in Whitespace THEN LStrip(Tail(s)) ELSE s

RECURSIVE RStrip(_)
RStrip(s) ==
    IF s # <<>> /\ s[Len(s)] \in Whitespace THEN RStrip(SubSeq(s, 1, Len(s) - 1)) ELSE s

Strip(s) == RStrip(LStrip(s))

\* str.replace(old, new) for a one-character old
Replace(s, old, new) == Concat([i \in 1..Len(s) |-> IF s[i] = old THEN new ELSE <<s[i]>>])

\* str.split(sep) for a one-character sep: always at least one piece
RECURSIVE SplitFrom(_, _, _)
SplitFrom(s, sep, cur) ==
    IF s = <<>> THEN <<cur>>
    ELSE IF Head(s) = sep THEN <<cur>> \o SplitFrom(Tail(s), sep, <<>>)
    ELSE SplitFrom(Tail(s), sep, Append(cur, Head(s)))

Split(s, sep) == SplitFrom(s, sep, <<>>)

\* str(int)
RECURSIVE NatToStr(_)
NatToStr(n) == IF n < 10 THEN <<Digits[n + 1]>> ELSE NatToStr(n \div 10) \o <<Digits[(n % 10) + 1]>>

IntToStr(n) == IF n < 0 THEN <<"-">> \o NatToStr(-n) ELSE NatToStr(n)

RECURSIVE StrToNat(_)
StrToNat(s) == IF s = <<>> THEN 0 ELSE StrToNat(SubSeq(s, 1, Len(s) - 1)) * 10 + DigitVal(s[Len(s)])

AllDigits(s) == \A i \in 1..Len(s) : s[i] \in DigitSet

\* ------------------------------------------------- str(x), repr(x), bool(x)
\* repr of a str: single quotes unless the text holds ' and no "
ReprStr(s) ==
    LET hasS == \E i \in 1..Len(s) : s[i] = "'"
        hasD == \E i \in 1..Len(s) : s[i] = "\""
    IN  IF hasS /\ ~hasD THEN <<"\"">> \o s \o <<"\"">>
        ELSE <<"'">> \o Concat([i \in 1..Len(s) |->
                 IF s[i] = "'" THEN <<"\\", "'">>
                 ELSE IF s[i] = "\n" THEN <<"\\", "n">> ELSE <<s[i]>>]) \o <<"'">>

RECURSIVE PyRepr(_)
PyRepr(x) ==
    CASE x.t = "str" -> ReprStr(x.v)
      [] x.t = "int" -> IntToStr(x.v)
      [] x.t = "none" -> <<"N", "o", "n", "e">>
      [] x.t = "bool" -> IF x.v THEN <<"T", "r", "u", "e">> ELSE <<"F", "a", "l", "s", "e">>
      [] x.t = "list" ->
            <<"[">> \o Join([i \in 1..Len(x.v) |-> PyRepr(x.v[i])], <<",", " ">>) \o <<"]">>
      [] x.t = "dict" ->
            <<"{">> \o Join([i \in 1..Len(x.v) |->
                         ReprStr(x.v[i][1]) \o <<":", " ">> \o PyRepr(x.v[i][2])],
                         <<",", " ">>) \o <<"}">>

PyStr(x) == IF x.t = "str" THEN x.v ELSE PyRepr(x)

Truthy(x) ==
    CASE x.t = "str" -> x.v # <<>>
      [] x.t = "int" -> x.v # 0
      [] x.t = "none" -> FALSE
      [] x.t = "bool" -> x.v
      [] x.t = "list" -> x.v # <<>>
      [] x.t = "dict" -> x.v # <<>>

\* ------------------------------------------------------------ json.loads
\* The decoder of the standard library on a text without backslash escapes and
\* without fractions or exponents: strings, integers, null/true/false, arrays
\* and objects.  A result with ok = FALSE is json.JSONDecodeError.
JsonWs == {" ", "\n", "\t", "\r"}
JsonControl == {"\n", "\t", "\r"}
JsonFail == [ok |-> FALSE, val |-> PyNone, pos |-> 0]
JsonOk(x, p) == [ok |-> TRUE, val |-> x, pos |-> p]

RECURSIVE SkipWs(_, _)
SkipWs(s, i) == IF i <= Len(s) /\ s[i] \in JsonWs THEN SkipWs(s, i + 1) ELSE i

\* index of the closing quote of the string opened before i, 0 if there is none
RECURSIVE StringEnd(_, _)
StringEnd(s, i) ==
    IF i > Len(s) \/ s[i] \in JsonControl THEN 0
    ELSE IF s[i] = "\"" THEN i
    ELSE StringEnd(s, i + 1)

RECURSIVE DigitsEnd(_, _)
DigitsEnd(s, i) == IF i <= Len(s) /\ s[i] \in DigitSet THEN DigitsEnd(s, i + 1) ELSE i

StartsWith(s, i, w) == i + Len(w) - 1 <= Len(s) /\ SubSeq(s, i, i + Len(w) - 1) = w

ParseString(s, i) ==
    LET j == StringEnd(s, i + 1)
    IN  IF j = 0 THEN JsonFail ELSE JsonOk(PyS(SubSeq(s, i + 1, j - 1)), j + 1)

ParseNumber(s, i) ==
    LET j == IF s[i] = "0" THEN i + 1 ELSE DigitsEnd(s, i)
    IN  JsonOk(PyInt(StrToNat(SubSeq(s, i, j - 1))), j)

RECURSIVE ParseValue(_, _)
RECURSIVE ParseElems(_, _, _)
RECURSIVE ParseMembers(_, _, _)

ParseValue(s, i) ==
    IF i > Len(s) THEN JsonFail
    ELSE IF s[i] = "\"" THEN ParseString(s, i)
    ELSE IF s[i] \in DigitSet THEN ParseNumber(s, i)
    ELSE IF StartsWith(s, i, <<"n", "u", "l", "l">>) THEN JsonOk(PyNone, i + 4)
    ELSE IF StartsWith(s, i, <<"t", "r", "u", "e">>) THEN JsonOk(PyBool(TRUE), i + 4)
    ELSE IF StartsWith(s, i, <<"f", "a", "l", "s", "e">>) THEN JsonOk(PyBool(FALSE), i + 5)
    ELSE IF s[i] = "[" THEN
        LET j == SkipWs(s, i + 1)
        IN  IF j <= Len(s) /\ s[j] = "]" THEN JsonOk(PyList(<<>>), j + 1)
            ELSE ParseElems(s, j, <<>>)
    ELSE IF s[i] = "{" THEN
        LET j == SkipWs(s, i + 1)
        IN  IF j <= Len(s) /\ s[j] = "}" THEN JsonOk(PyDict(<<>>), j + 1)
            ELSE ParseMembers(s, j, <<>>)
    ELSE JsonFail

ParseElems(s, i, acc) ==
    LET r == ParseValue(s, i)
        k == SkipWs(s, r.pos)
    IN  IF ~r.ok \/ k > Len(s) THEN JsonFail
        ELSE IF s[k] = "," THEN ParseElems(s, SkipWs(s, k + 1), Append(acc, r.val))
        ELSE IF s[k] = "]" THEN JsonOk(PyList(Append(acc, r.val)), k + 1)
        ELSE JsonFail

ParseMembers(s, i, acc) ==
    IF i > Len(s) \/ s[i] # "\"" THEN JsonFail
    ELSE
        LET key == ParseString(s, i)
            c == SkipWs(s, key.pos)
        IN  IF ~key.ok \/ c > Len(s) \/ s[c] # ":" THEN JsonFail
            ELSE
                LET r == ParseValue(s, SkipWs(s, c + 1))
                    k == SkipWs(s, r.pos)
                    got == Append(acc, <<key.val.v, r.val>>)
                IN  IF ~r.ok \/ k > Len(s) THEN JsonFail
                    ELSE IF s[k] = "," THEN ParseMembers(s, SkipWs(s, k + 1), got)
                    ELSE IF s[k] = "}" THEN JsonOk(PyDict(got), k + 1)
                    ELSE JsonFail

JsonLoads(s) ==
    LET r == ParseValue(s, SkipWs(s, 1))
    IN  IF r.ok /\ SkipWs(s, r.pos) = Len(s) + 1 THEN r ELSE JsonFail

\* -------------------------------------------------------- normalize_list
\* [str(x).strip() for x in xs if x and str(x).strip()]
StripElements(xs) ==
    LET kept == SelectSeq(xs, LAMBDA x : Truthy(x) /\ Strip(PyStr(x)) # <<>>)
    IN  [i \in 1..Len(kept) |-> PyS(Strip(PyStr(kept[i])))]

\* the comma fallback of a stripped, non-empty string s
CommaFallback(s) ==
    LET c1 == Replace(Replace(s, "\n", <<",">>), ";", <<",">>)
        c2 == Replace(Replace(Replace(Replace(c1, "{", <<>>), "}", <<>>), "[", <<>>), "]", <<>>)
        cleaned == Replace(Replace(c2, "\"", <<>>), "'", <<>>)
        kept == SelectSeq(Split(cleaned, ","), LAMBDA x : x # <<>> /\ Strip(x) # <<>>)
    IN  [i \in 1..Len(kept) |-> PyS(Strip(kept[i]))]

\* variant: the decode error of json.loads is not caught
normalize_list_uncaught(value) ==
    IF value.t = "list" THEN Returned(PyList(StripElements(value.v)))
    ELSE IF value.t = "str" THEN
        LET s == Strip(value.v)
            r == JsonLoads(s)
        IN  IF s = <<>> THEN Returned(PyList(<<>>))
            ELSE IF ~r.ok THEN Raised("JSONDecodeError", "Expecting value")
            ELSE IF r.val.t = "list" THEN Returned(PyList(StripElements(r.val.v)))
            ELSE Returned(PyList(CommaFallback(s)))
    ELSE Returned(PyList(<<>>))

normalize_list(value) ==
    IF value.t = "list" THEN Returned(PyList(StripElements(value.v)))
    ELSE IF value.t = "str" THEN
        LET s == Strip(value.v)
            r == JsonLoads(s)
            parsed == IF r.ok THEN r.val ELSE PyNone
        IN  IF s = <<>> THEN Returned(PyList(<<>>))
            ELSE IF parsed.t = "list" THEN Returned(PyList(StripElements(parsed.v)))
            ELSE Returned(PyList(CommaFallback(s)))
    ELSE Returned(PyList(<<>>))

\* ------------------------------------------------------ to_timestamp_str
TPCVE == "ToolProviderCredentialValidationError"

\* pytz.timezone(tz): the zones of the tz database the model knows.  For a
\* zone with transitions the object returned carries the zone's first entry,
\* its local mean time rounded to the minute; that offset is what a datetime
\* gets from .replace(tzinfo=...).  lmt is in seconds east of UTC.
PytzZones ==
    [name \in {"Asia/Shanghai", "UTC", "America/New_York"} |->
        CASE name = "Asia/Shanghai" -> [lmt |-> 8 * 3600 + 6 * 60]
          [] name = "UTC" -> [lmt |-> 0]
          [] name = "America/New_York" -> [lmt |-> -(4 * 3600 + 56 * 60)]]

KnownZone(tz) == tz \in DOMAIN PytzZones

IsLeap(y) == (y % 4 = 0 /\ y % 100 # 0) \/ y % 400 = 0

DaysInMonth(y, m) ==
    IF m = 2 THEN (IF IsLeap(y) THEN 29 ELSE 28)
    ELSE IF m \in {4, 6, 9, 11} THEN 30 ELSE 31

\* days from 1970-01-01 to y-m-d in the proleptic Gregorian calendar
DaysFromCivil(y, m, d) ==
    LET yy == IF m <= 2 THEN y - 1 ELSE y
        era == yy \div 400
        yoe == yy - era * 400
        mp == IF m > 2 THEN m - 3 ELSE m + 9
        doy == (153 * mp + 2) \div 5 + d - 1
        doe == yoe * 365 + yoe \div 4 - yoe \div 100 + doy
    IN  era * 146097 + doe - 719468

NumField(s, minLen, maxLen, lo, hi) ==
    /\ Len(s) >= minLen
    /\ Len(s) <= maxLen
    /\ AllDigits(s)
    /\ StrToNat(s) >= lo
    /\ StrToNat(s) <= hi

\* datetime.strptime(s, "%Y-%m-%d %H:%M:%S") on a text whose only blank, if
\* any, is one space between date and time; ok = FALSE is ValueError.
Strptime(s) ==
    LET halves == Split(s, " ")
        date == IF Len(halves) = 2 THEN Split(halves[1], "-") ELSE <<>>
        time == IF Len(halves) = 2 THEN Split(halves[2], ":") ELSE <<>>
        bad == [ok |-> FALSE, y |-> 0, mo |-> 0, d |-> 0, h |-> 0, mi |-> 0, s |-> 0]
    IN  IF Len(date) # 3 \/ Len(time) # 3 THEN bad
        ELSE IF ~(/\ NumField(date[1], 4, 4, 1, 9999)
                  /\ NumField(date[2], 1, 2, 1, 12)
                  /\ NumField(date[3], 1, 2, 1, 31)
                  /\ NumField(time[1], 1, 2, 0, 23)
                  /\ NumField(time[2], 1, 2, 0, 59)
                  /\ NumField(time[3], 1, 2, 0, 61)) THEN bad
        ELSE IF StrToNat(date[3]) > DaysInMonth(StrToNat(date[1]), StrToNat(date[2])) THEN bad
        ELSE IF StrToNat(time[3]) > 59 THEN bad
        ELSE [ok |-> TRUE, y |-> StrToNat(date[1]), mo |-> StrToNat(date[2]),
              d |-> StrToNat(date[3]), h |-> StrToNat(time[1]), mi |-> StrToNat(time[2]),
              s |-> StrToNat(time[3])]

WallSeconds(dt) == DaysFromCivil(dt.y, dt.mo, dt.d) * 86400 + dt.h * 3600 + dt.mi * 60 + dt.s

\* str(int(ts_sec * 1000)), the product written in decimal (it exceeds 32 bits)
MillisStr(ts_sec) == IF ts_sec = 0 THEN <<"0">> ELSE IntToStr(ts_sec) \o <<"0", "0", "0">>

to_timestamp_str(time_str, tz) ==
    IF ~Truthy(time_str) THEN Returned(PyNone)
    ELSE IF ~KnownZone(tz) THEN Raised(TPCVE, "Unknown time zone")
    ELSE
        LET dt == Strptime(time_str.v)
            ts_sec == WallSeconds(dt) - PytzZones[tz].lmt
        IN  IF ~dt.ok THEN Raised(TPCVE, "Invalid time string")
            ELSE Returned(PyS(MillisStr(ts_sec)))

\* ------------------------------------------- FeishuRequestV2: requests
Url(path, id) == [path |-> path, id |-> id]
TokenUrl == Url("/auth/v3/tenant_access_token/internal", <<>>)
NoAuth == [scheme |-> "none", token |-> <<>>]
NoBody == [has |-> FALSE, d |-> <<>>]
Json(d) == [has |-> TRUE, d |-> d]
Request(url, method, payload, params) ==
    [url |-> url, method |-> method, auth |-> NoAuth, payload |-> payload, params |-> params]
NoRequest == Request(Url("", <<>>), "", NoBody, "")

\* a step of an operation before its HTTP call: the request to send, or the exception
Plan(req) == [err |-> NoOutcome, req |-> req]
Fail(o) == [err |-> o, req |-> NoRequest]

Opt(cond, pair) == IF cond THEN <<pair>> ELSE <<>>
IsNone(x) == x.t = "none"
Contains(s, c) == \E i \in 1..Len(s) : s[i] = c

RECURSIVE FirstRaise(_)
FirstRaise(os) ==
    IF os = <<>> THEN NoOutcome
    ELSE IF Head(os).kind = "raise" THEN Head(os)
    ELSE FirstRaise(Tail(os))

\* to_timestamp_str of an optional argument: not called when the argument is None
TsOf(x, tz) == IF IsNone(x) THEN NoOutcome ELSE to_timestamp_str(x, tz)

\* variant: the header is built without the token
AuthHeader_empty(token) == [scheme |-> "Bearer", token |-> <<>>]

\* f"Bearer {self.tenant_access_token}"
AuthHeader(token) == [scheme |-> "Bearer", token |-> PyStr(token)]

\* variant: no operation asks for a token
RequireToken_never(op) == FALSE

RequireToken(op) == op # "get_tenant_access_token"

TokenRequest(app_id, app_secret) ==
    Request(TokenUrl, "post", Json(<<<<"app_id", app_id>>, <<"app_secret", app_secret>>>>), "")

create_task(a) ==
    LET due_ts == TsOf(a.due_date, a.tz)
        start_ts == TsOf(a.start_time, a.tz)
        completed_ts == TsOf(a.completed_at, a.tz)
        err == FirstRaise(<<due_ts, start_ts, completed_ts>>)
        assignees == IF Truthy(a.assignees_members) THEN a.assignees_members.v ELSE <<>>
        followers == IF Truthy(a.followers_members) THEN a.followers_members.v ELSE <<>>
        members ==
            [i \in 1..Len(assignees) |-> [id |-> assignees[i], role |-> "assignee"]]
                \o [i \in 1..Len(followers) |-> [id |-> followers[i], role |-> "follower"]]
        payload ==
            <<<<"summary", a.summary>>>>
                \o Opt(~IsNone(a.description), <<"description", a.description>>)
                \o Opt(~IsNone(a.due_date),
                       <<"due", [timestamp |-> due_ts.val, is_all_day |-> a.end_time_is_all_day]>>)
                \o Opt(~IsNone(a.start_time),
                       <<"start", [timestamp |-> start_ts.val, is_all_day |-> a.start_time_is_all_day]>>)
                \o Opt(~IsNone(a.completed_at), <<"completed_at", completed_ts.val>>)
                \o Opt(members # <<>>, <<"members", members>>)
                \o Opt(~IsNone(a.relative_fire_minute),
                       <<"reminders", <<[relative_fire_minute |-> a.relative_fire_minute]>>>>)
    IN  IF err.kind = "raise" THEN Fail(err)
        ELSE Plan(Request(Url("/task/v2/tasks", <<>>), "post", Json(payload), ""))

delete_task(a) ==
    Plan(Request(Url("/task/v2/tasks/{task_id}", PyStr(a.task_id)), "delete", NoBody, ""))

get_userID_from_email_phone(a) ==
    IF a.email_or_phone.t # "list" THEN Fail(Raised("TypeError", "object is not iterable"))
    ELSE
        LET items == a.email_or_phone.v
            emails == SelectSeq(items, LAMBDA x : Contains(x.v, "@"))
            mobiles == SelectSeq(items, LAMBDA x : ~Contains(x.v, "@"))
            payload == <<<<"emails", emails>>, <<"mobiles", mobiles>>,
                         <<"include_resigned", PyBool(FALSE)>>>>
        IN  Plan(Request(Url("/contact/v3/users/batch_get_id", <<>>), "post", Json(payload),
                         "user_id_type=open_id"))

add_members(a) ==
    IF a.user_ids.t # "list" THEN Fail(Raised("TypeError", "object is not iterable"))
    ELSE
        LET ids == a.user_ids.v
            members == [i \in 1..Len(ids) |->
                          [id |-> ids[i], role |-> a.member_role, type |-> a.member_type]]
            payload == <<<<"members", members>>>>
                          \o Opt(Truthy(a.client_token), <<"client_token", a.client_token>>)
        IN  Plan(Request(Url("/task/v2/tasks/{task_id}/add_members", PyStr(a.task_id)), "post",
                         Json(payload), "user_id_type=open_id"))

\* variant: the block is entered on "if x:" instead of "if x is not None:"
UpdateStep_truthy(acc, key, arg, value) ==
    IF ~Truthy(arg) THEN acc
    ELSE [task |-> Append(acc.task, <<key, value>>),
          update_fields |-> Append(acc.update_fields, key)]

\* one "if x is not None:" block of update_task
UpdateStep(acc, key, arg, value) ==
    IF IsNone(arg) THEN acc
    ELSE [task |-> Append(acc.task, <<key, value>>),
          update_fields |-> Append(acc.update_fields, key)]

update_task(a) ==
    LET start_ts == TsOf(a.start_time, a.tz)
        due_ts == TsOf(a.due_date, a.tz)
        completed_ts == TsOf(a.completed_at, a.tz)
        err == FirstRaise(<<start_ts, due_ts, completed_ts>>)
        s0 == [task |-> <<>>, update_fields |-> <<>>]
        s1 == UpdateStep(s0, "summary", a.summary, a.summary)
        s2 == UpdateStep(s1, "description", a.description, a.description)
        s3 == UpdateStep(s2, "start", a.start_time,
                         [timestamp |-> start_ts.val, is_all_day |-> FALSE])
        s4 == UpdateStep(s3, "due", a.due_date, [timestamp |-> due_ts.val, is_all_day |-> FALSE])
        s5 == UpdateStep(s4, "completed_at", a.completed_at, completed_ts.val)
        payload == <<<<"task", s5.task>>, <<"update_fields", s5.update_fields>>>>
    IN  IF err.kind = "raise" THEN Fail(err)
        ELSE Plan(Request(Url("/task/v2/tasks/{task_id}", PyStr(a.task_id)), "patch",
                          Json(payload), "user_id_type=open_id"))

\* ------------------------------------------ FeishuRequestV2: responses
Body(code, token, guid) == [code |-> code, tenant_access_token |-> token, guid |-> guid]
NoJson == Body(PyNone, PyNone, PyNone)

\* res.get("code") != 0
CodeIsNotZero(body) ==
    ~((body.code.t = "int" /\ body.code.v = 0) \/ (body.code.t = "bool" /\ body.code.v = FALSE))

\* variant: "if res.get('code'):", a missing code passes
send_request_outcome_truthy(resp) ==
    IF resp.kind = "transport_error" THEN Raised("Exception", "HTTP request failed")
    ELSE IF resp.kind = "not_json" THEN Raised("Exception", "Invalid JSON response from Feishu API")
    ELSE IF Truthy(resp.body.code) THEN Raised("Exception", "Feishu API Error")
    ELSE Returned(resp.body)

\* variant: the envelope's code is not looked at
send_request_outcome_nocheck(resp) ==
    IF resp.kind = "transport_error" THEN Raised("Exception", "HTTP request failed")
    ELSE IF resp.kind = "not_json" THEN Raised("Exception", "Invalid JSON response from Feishu API")
    ELSE Returned(resp.body)

\* _send_request once httpx.request has come back
send_request_outcome(resp) ==
    IF resp.kind = "transport_error" THEN Raised("Exception", "HTTP request failed")
    ELSE IF resp.kind = "not_json" THEN Raised("Exception", "Invalid JSON response from Feishu API")
    ELSE IF CodeIsNotZero(resp.body) THEN Raised("Exception", "Feishu API Error")
    ELSE Returned(resp.body)

\* get_tenant_access_token once _send_request has come back
get_tenant_access_token(resp) ==
    LET res == send_request_outcome(resp)
    IN  IF res.kind = "raise" THEN res
        ELSE IF CodeIsNotZero(res.val) THEN Raised("Exception", "token response")
        ELSE res

\* -------------------------------------------------------- entry points
NoTool == [msgs |-> <<>>, exc |-> "none", msg |-> ""]
Escaped(e, m) == [msgs |-> <<>>, exc |-> e, msg |-> m]
JsonMessage(x) == [type |-> "json", error |-> FALSE, val |-> x]
ErrorMessage(m) == [type |-> "json", error |-> TRUE, val |-> m]
VariableMessage(name, x) == [type |-> "variable", error |-> FALSE, val |-> <<name, x>>]
Emitted(ms) == [msgs |-> ms, exc |-> "none", msg |-> ""]

TimeZoneOf(credentials) ==
    IF credentials.has_time_zone THEN credentials.time_zone ELSE "Asia/Shanghai"

\* variant: only app_id is required
AuthMissing_idonly(credentials) == ~Truthy(credentials.app_id)

\* auth: "if not app_id or not app_secret"
AuthMissing(credentials) == ~Truthy(credentials.app_id) \/ ~Truthy(credentials.app_secret)

\* auth once the token request has come back
auth_after_token(credentials, res) ==
    IF res.kind = "raise" THEN Escaped(TPCVE, "Failed to validate credentials")
    ELSE IF IsNone(res.val.tenant_access_token)
        THEN Escaped(TPCVE, "Failed to validate credentials")
    ELSE IF ~KnownZone(TimeZoneOf(credentials)) THEN Escaped(TPCVE, "Unknown time zone")
    ELSE NoTool

\* tool_parameters.get("member_role", "follower"), .get("member_type", "user")
RoleOf(p) == IF p.has_member_role THEN p.member_role ELSE "follower"
TypeOf(p) == IF p.has_member_type THEN p.member_type ELSE "user"

\* variant: the role is not validated
AddMembersCheck_norole(p) ==
    IF ~Truthy(p.task_guid) THEN "task_guid is required"
    ELSE IF TypeOf(p) \notin {"user", "app"} THEN "member_type must be 'user' or 'app'"
    ELSE IF normalize_list(p.member_ids).val.v = <<>>
        THEN "member_ids must provide at least one member"
    ELSE ""

\* AddMembersTool._invoke up to the client call: the ValueError raised, "" if none
AddMembersCheck(p) ==
    IF ~Truthy(p.task_guid) THEN "task_guid is required"
    ELSE IF RoleOf(p) \notin {"assignee", "follower"}
        THEN "member_role must be 'assignee' or 'follower'"
    ELSE IF TypeOf(p) \notin {"user", "app"} THEN "member_type must be 'user' or 'app'"
    ELSE IF normalize_list(p.member_ids).val.v = <<>>
        THEN "member_ids must provide at least one member"
    ELSE ""

\* "x or None", "x or False", "x or []"
OrElse(x, d) == IF Truthy(x) THEN x ELSE d

\* what the entry point does with the client operation's outcome (guid stands for
\* data.task.guid of the body)
Emit(e, ea, res) ==
    CASE e = "auth" -> auth_after_token(ea, res)
      [] e = "AddMembersTool" ->
            IF res.kind = "raise" THEN Emitted(<<ErrorMessage(res.msg)>>)
            ELSE Emitted(<<JsonMessage(res.val)>>)
      [] e = "CreateTaskTool" ->
            IF res.kind = "raise" THEN Escaped(res.exc, res.msg)
            ELSE Emitted(<<JsonMessage(res.val),
                           VariableMessage("guid", IF IsNone(res.val.guid) THEN PyS(<<>>)
                                                   ELSE res.val.guid)>>)
      [] e \in {"UpdateTaskTool", "GetUserIDTool"} ->
            IF res.kind = "raise" THEN Escaped(res.exc, res.msg)
            ELSE Emitted(<<JsonMessage(res.val)>>)
      [] OTHER -> IF res.kind = "raise" THEN Escaped(res.exc, res.msg) ELSE NoTool

\* -------------------------------------------------- the helpers' inputs
Alphabet == {"a", "0", " ", ",", ";", "\n", "[", "]", "{", "}", "\"", "'"}
Texts(n) == UNION {[1..k -> Alphabet] : k \in 0..n}

S_abc == <<"a", ",", " ", "b", " ", ",", "c">>
S_xy == <<"[", "\"", "x", "\"", ",", "\"", "y", "\"", "]">>
S_obj == <<"{", "\"", "x", "\"", ":", "0", "}">>
S_mixed == <<"[", "0", ",", " ", "1", "2", ",", "n", "u", "l", "l", ",", "\"", " ", "a", "\"", "]">>
SampleTexts == {S_abc, S_xy, S_obj, S_mixed}

Elements ==
    {PyS(<<>>), PyS(<<" ">>), PyS(<<"a">>), PyS(<<" ", "a", " ">>), PyS(<<"b">>),
     PyInt(0), PyInt(7), PyNone, PyBool(FALSE), PyList(<<>>)}

NormalizeInputs ==
    {PyS(s) : s \in Texts(MaxLen) \cup SampleTexts}
        \cup {PyList(xs) : xs \in UNION {[1..k -> Elements] : k \in 0..MaxElems}}
        \cup {PyNone, PyInt(5)}

Pad(n, w) == LET s == NatToStr(n) IN [i \in 1..(w - Len(s)) |-> "0"] \o s

\* "%Y-%m-%d %H:%M:%S" of the fields, zero-padded or not
FormatTime(g, padded) ==
    LET w == IF padded THEN 2 ELSE 1
    IN  Pad(g.y, 4) \o <<"-">> \o Pad(g.mo, w) \o <<"-">> \o Pad(g.d, w) \o <<" ">>
            \o Pad(g.h, w) \o <<":">> \o Pad(g.mi, w) \o <<":">> \o Pad(g.s, w)

NoGen == [fields |-> FALSE, y |-> 0, mo |-> 0, d |-> 0, h |-> 0, mi |-> 0, s |-> 0]
TimeFields ==
    [fields : {TRUE}, y : {1970, 2023, 2024}, mo : {1, 2, 5, 7, 12}, d : {1, 29, 30, 31},
     h : {0, 14, 23}, mi : {0, 30}, s : {0, 59, 60}]

S_bad == <<"b", "a", "d">>
S_dateonly == <<"2", "0", "2", "3", "-", "0", "5", "-", "0", "1">>
S_iso ==
    <<"2", "0", "2", "3", "-", "0", "5", "-", "0", "1", "T", "1", "4", ":", "3", "0", ":", "0", "0">>
MalformedTimes == {S_bad, S_dateonly, S_iso}

ZoneNames == {"Asia/Shanghai", "UTC", "America/New_York", "Mars/Phobos", ""}

NoClient == [app_id |-> PyNone, app_secret |-> PyNone, tz |-> ""]
NoCall == [op |-> "none", a |-> <<>>]

HttpIdle ==
    /\ pc = "idle"
    /\ entry = "none"
    /\ args = <<>>
    /\ client = NoClient
    /\ call = NoCall
    /\ pending = NoRequest
    /\ reqs = <<>>
    /\ resps = <<>>
    /\ result = NoOutcome
    /\ tool = NoTool

PureIdle ==
    /\ fn = "none"
    /\ input = [value |-> PyNone, tz |-> ""]
    /\ gen = NoGen
    /\ phase = "ready"
    /\ out = NoOutcome

InitPure ==
    /\ HttpIdle
    /\ phase = "ready"
    /\ out = NoOutcome
    /\ \/ /\ fn = "normalize_list"
          /\ gen = NoGen
          /\ \E v \in NormalizeInputs : input = [value |-> v, tz |-> ""]
       \/ /\ fn = "to_timestamp_str"
          /\ \E tz \in ZoneNames :
                \/ \E g \in TimeFields, padded \in BOOLEAN :
                      /\ gen = g
                      /\ input = [value |-> PyS(FormatTime(g, padded)), tz |-> tz]
                \/ \E s \in MalformedTimes \cup {<<>>} :
                      /\ gen = NoGen
                      /\ input = [value |-> PyS(s), tz |-> tz]

CallNormalizeList ==
    /\ phase = "ready"
    /\ fn = "normalize_list"
    /\ out' = normalize_list(input.value)
    /\ phase' = "done"
    /\ UNCHANGED <<fn, input, gen>>
    /\ UNCHANGED httpVars

CallToTimestampStr ==
    /\ phase = "ready"
    /\ fn = "to_timestamp_str"
    /\ out' = to_timestamp_str(input.value, input.tz)
    /\ phase' = "done"
    /\ UNCHANGED <<fn, input, gen>>
    /\ UNCHANGED httpVars

NextPure == CallNormalizeList \/ CallToTimestampStr

SpecPure == InitPure /\ [][NextPure]_vars

\* ------------------------------------------------ the entry points' inputs
ID == PyS(<<"i", "d">>)
SEC == PyS(<<"s", "e", "c">>)
TOK == PyS(<<"t", "o", "k">>)
G1 == PyS(<<"g", "1">>)
U1 == PyS(<<"u", "1">>)
U2 == PyS(<<"u", "2">>)
CT == PyS(<<"c", "t">>)
SUM == PyS(<<"s", "u", "m">>)
DESC == PyS(<<"d", "e", "s", "c">>)
EMAIL == PyS(<<"a", "@", "x">>)
PHONE == PyS(<<"1", "2", "3">>)
EMPTY == PyS(<<>>)
T_OK == PyS(FormatTime([y |-> 2023, mo |-> 5, d |-> 1, h |-> 14, mi |-> 30, s |-> 0], TRUE))
T_BAD == PyS(S_bad)
S_u1u2 == <<"u", "1", ",", " ", "u", "2">>
S_ju2 == <<"[", "\"", "u", "2", "\"", "]">>
S_contacts == <<"a", "@", "x", ",", "1", "2", "3">>

Lists(S, n) == {PyList(xs) : xs \in UNION {[1..k -> S] : k \in 0..n}}

TheClient == [app_id |-> ID, app_secret |-> SEC, tz |-> "Asia/Shanghai"]

Responses ==
    {[kind |-> "transport_error", body |-> NoJson], [kind |-> "not_json", body |-> NoJson]}
        \cup {[kind |-> "json", body |-> Body(c, x[1], x[2])] :
                c \in {PyInt(0), PyInt(99), PyNone}, x \in {<<TOK, G1>>, <<PyNone, PyNone>>}}

GetTokenArgs == [app_id : {ID, U1}, app_secret : {SEC}]
CreateArgs ==
    [summary : {SUM}, description : {PyNone, DESC}, start_time : {PyNone, T_OK, T_BAD},
     start_time_is_all_day : {PyBool(FALSE)}, due_date : {PyNone, T_OK, EMPTY},
     end_time_is_all_day : {PyBool(FALSE)}, completed_at : {PyNone, T_OK},
     relative_fire_minute : {PyNone, PyInt(30)}, assignees_members : {PyNone} \cup Lists({U1}, 1),
     followers_members : Lists({U2}, 1), tz : {"Asia/Shanghai", "Mars/Phobos"}]
UpdateArgs ==
    [task_id : {G1}, summary : {PyNone, SUM}, description : {PyNone, DESC},
     start_time : {PyNone, EMPTY, T_OK, T_BAD}, due_date : {PyNone, T_OK},
     completed_at : {PyNone, T_OK, EMPTY}, tz : {"Asia/Shanghai", "Mars/Phobos"}]
DeleteArgs == [task_id : {G1, EMPTY, PyNone}]
AddMembersArgs ==
    [task_id : {G1}, user_ids : {PyNone} \cup Lists({U1, U2}, MaxIds),
     member_role : {"follower", "assignee", "owner"}, member_type : {"user", "app"},
     client_token : {PyNone, CT, EMPTY}]
GetUserArgs == [email_or_phone : {PyNone} \cup Lists({EMAIL, PHONE}, MaxIds)]

AuthCredentials ==
    {[app_id |-> i, app_secret |-> s, has_time_zone |-> z[1], time_zone |-> z[2]] :
        i \in {PyNone, EMPTY, ID}, s \in {PyNone, EMPTY, SEC},
        z \in {<<FALSE, "">>, <<TRUE, "Asia/Shanghai">>, <<TRUE, "UTC">>,
               <<TRUE, "Mars/Phobos">>, <<TRUE, "">>}}
ToolCredentials ==
    {[app_id |-> ID, app_secret |-> SEC, has_time_zone |-> z[1], time_zone |-> z[2]] :
        z \in {<<FALSE, "">>, <<TRUE, "UTC">>, <<TRUE, "Mars/Phobos">>}}

AddMembersParams ==
    {[task_guid |-> g, member_ids |-> m, has_member_role |-> r[1], member_role |-> r[2],
      has_member_type |-> ty[1], member_type |-> ty[2], client_token |-> c] :
        g \in {PyNone, EMPTY, G1},
        m \in {PyNone, PyS(S_u1u2), PyS(<<" ">>), PyS(S_ju2), PyList(<<U1>>), PyList(<<PyInt(0)>>)},
        r \in {<<FALSE, "">>, <<TRUE, "assignee">>, <<TRUE, "follower">>, <<TRUE, "owner">>},
        ty \in {<<FALSE, "">>, <<TRUE, "user">>, <<TRUE, "app">>, <<TRUE, "bot">>},
        c \in {PyNone, CT}}
CreateTaskParams ==
    [summary : {SUM}, description : {PyNone, DESC}, start_time : {PyNone, EMPTY, T_OK},
     start_time_is_all_day : {PyNone, PyBool(TRUE)}, due_date : {PyNone, T_BAD},
     end_time_is_all_day : {PyNone}, completed_at : {PyNone, T_OK},
     relative_fire_minute : {PyNone, PyInt(0), PyInt(30)},
     assignees_members : {PyNone, PyS(S_u1u2), PyList(<<U1>>)},
     followers_members : {PyNone, PyS(S_ju2)}]
UpdateTaskParams ==
    [task_guid : {G1, PyNone}, summary : {PyNone, EMPTY, SUM}, description : {PyNone, EMPTY, DESC},
     start_time : {PyNone, EMPTY, T_OK}, end_time : {PyNone, T_OK},
     completed_time : {PyNone, T_BAD}]
GetUserIDParams ==
    [email_or_phone : {PyNone, EMPTY, PyS(S_contacts), PyList(<<EMAIL>>)}]

\* ---------------------------------------------------------------- actions
\* the invocation ends: the client operation's outcome and what the entry point emits
Finish(e, ea, res) ==
    /\ result' = res
    /\ tool' = Emit(e, ea, res)
    /\ pc' = "done"
    /\ pending' = NoRequest

\* a client operation is called: it raises before any HTTP call, or _send_request
\* issues the first HTTP call (the token request when the operation needs a token)
Start(e, ea, cl, op, oa, plan) ==
    /\ pc = "idle"
    /\ entry' = e
    /\ args' = ea
    /\ client' = cl
    /\ call' = [op |-> op, a |-> oa]
    /\ resps' = <<>>
    /\ IF plan.err.kind = "raise" THEN
            /\ reqs' = <<>>
            /\ Finish(e, ea, plan.err)
       ELSE IF RequireToken(op) THEN
            /\ reqs' = <<TokenRequest(cl.app_id, cl.app_secret)>>
            /\ pending' = plan.req
            /\ pc' = "await_token"
            /\ UNCHANGED <<result, tool>>
       ELSE
            /\ reqs' = <<plan.req>>
            /\ pending' = NoRequest
            /\ pc' = "await_main"
            /\ UNCHANGED <<result, tool>>
    /\ UNCHANGED pureVars

\* the entry point ends before a client operation is called
EndEarly(e, ea, cl, t) ==
    /\ pc = "idle"
    /\ entry' = e
    /\ args' = ea
    /\ client' = cl
    /\ tool' = t
    /\ pc' = "done"
    /\ UNCHANGED <<call, pending, reqs, resps, result>>
    /\ UNCHANGED pureVars

Call_get_tenant_access_token ==
    /\ pc = "idle"
    /\ \E a \in GetTokenArgs :
           Start("get_tenant_access_token", a, TheClient, "get_tenant_access_token", a,
                 Plan(TokenRequest(a.app_id, a.app_secret)))

Call_create_task ==
    /\ pc = "idle"
    /\ \E a \in CreateArgs : Start("create_task", a, TheClient, "create_task", a, create_task(a))

Call_update_task ==
    /\ pc = "idle"
    /\ \E a \in UpdateArgs : Start("update_task", a, TheClient, "update_task", a, update_task(a))

Call_delete_task ==
    /\ pc = "idle"
    /\ \E a \in DeleteArgs : Start("delete_task", a, TheClient, "delete_task", a, delete_task(a))

Call_add_members ==
    /\ pc = "idle"
    /\ \E a \in AddMembersArgs : Start("add_members", a, TheClient, "add_members", a, add_members(a))

Call_get_userID_from_email_phone ==
    /\ pc = "idle"
    /\ \E a \in GetUserArgs :
           Start("get_userID_from_email_phone", a, TheClient, "get_userID_from_email_phone", a,
                 get_userID_from_email_phone(a))

Invoke_auth ==
    /\ pc = "idle"
    /\ \E cr \in AuthCredentials :
           IF AuthMissing(cr)
           THEN EndEarly("auth", cr, NoClient, Escaped(TPCVE, "app_id and app_secret are required"))
           ELSE LET cl == [app_id |-> cr.app_id, app_secret |-> cr.app_secret, tz |-> "Asia/Shanghai"]
                    a == [app_id |-> cr.app_id, app_secret |-> cr.app_secret]
                IN  Start("auth", cr, cl, "get_tenant_access_token", a,
                          Plan(TokenRequest(a.app_id, a.app_secret)))

Invoke_AddMembersTool ==
    /\ pc = "idle"
    /\ \E p \in AddMembersParams :
           LET check == AddMembersCheck(p)
               a == [task_id |-> p.task_guid, user_ids |-> normalize_list(p.member_ids).val,
                     member_role |-> RoleOf(p), member_type |-> TypeOf(p),
                     client_token |-> p.client_token]
           IN  IF check # ""
               THEN EndEarly("AddMembersTool", p, TheClient, Emitted(<<ErrorMessage(check)>>))
               ELSE Start("AddMembersTool", p, TheClient, "add_members", a, add_members(a))

Invoke_CreateTaskTool ==
    /\ pc = "idle"
    /\ \E cr \in ToolCredentials, p \in CreateTaskParams :
           LET tz == TimeZoneOf(cr)
               a == [summary |-> p.summary, description |-> p.description,
                     start_time |-> OrElse(p.start_time, PyNone),
                     start_time_is_all_day |-> OrElse(p.start_time_is_all_day, PyBool(FALSE)),
                     due_date |-> OrElse(p.due_date, PyNone),
                     end_time_is_all_day |-> OrElse(p.end_time_is_all_day, PyBool(FALSE)),
                     completed_at |-> OrElse(p.completed_at, PyNone),
                     relative_fire_minute |-> OrElse(p.relative_fire_minute, PyNone),
                     assignees_members |->
                         normalize_list(OrElse(p.assignees_members, PyList(<<>>))).val,
                     followers_members |->
                         normalize_list(OrElse(p.followers_members, PyList(<<>>))).val,
                     tz |-> tz]
           IN  Start("CreateTaskTool", [credentials |-> cr, parameters |-> p],
                     [app_id |-> cr.app_id, app_secret |-> cr.app_secret, tz |-> tz],
                     "create_task", a, create_task(a))

Invoke_UpdateTaskTool ==
    /\ pc = "idle"
    /\ \E cr \in ToolCredentials, p \in UpdateTaskParams :
           LET tz == TimeZoneOf(cr)
               a == [task_id |-> p.task_guid, summary |-> p.summary,
                     description |-> OrElse(p.description, PyNone),
                     start_time |-> OrElse(p.start_time, PyNone),
                     due_date |-> OrElse(p.end_time, PyNone),
                     completed_at |-> OrElse(p.completed_time, PyNone),
                     tz |-> tz]
           IN  Start("UpdateTaskTool", [credentials |-> cr, parameters |-> p],
                     [app_id |-> cr.app_id, app_secret |-> cr.app_secret, tz |-> tz],
                     "update_task", a, update_task(a))

Invoke_GetUserIDTool ==
    /\ pc = "idle"
    /\ \E p \in GetUserIDParams :
           LET a == [email_or_phone |-> normalize_list(p.email_or_phone).val]
           IN  Start("GetUserIDTool", p, TheClient, "get_userID_from_email_phone", a,
                     get_userID_from_email_phone(a))

\* the token request of the tenant_access_token property comes back: the
\* operation's own request is sent with the token, or the exception propagates
ReceiveToken ==
    /\ pc = "await_token"
    /\ \E resp \in Responses :
        LET res == get_tenant_access_token(resp)
        IN  /\ resps' = Append(resps, resp)
            /\ IF res.kind = "raise" THEN
                    /\ Finish(entry, args, res)
                    /\ UNCHANGED reqs
               ELSE
                    /\ reqs' = Append(reqs, [pending EXCEPT
                                                !.auth = AuthHeader(res.val.tenant_access_token)])
                    /\ pending' = NoRequest
                    /\ pc' = "await_main"
                    /\ UNCHANGED <<result, tool>>
    /\ UNCHANGED <<entry, args, client, call>>
    /\ UNCHANGED pureVars

\* the operation's own request comes back
ReceiveResponse ==
    /\ pc = "await_main"
    /\ \E resp \in Responses :
        LET res == IF call.op = "get_tenant_access_token" THEN get_tenant_access_token(resp)
                   ELSE send_request_outcome(resp)
        IN  /\ resps' = Append(resps, resp)
            /\ Finish(entry, args, res)
    /\ UNCHANGED <<entry, args, client, call, reqs>>
    /\ UNCHANGED pureVars

\* the next invocation starts from nothing: no token, response or result is kept
NextInvocation ==
    /\ pc = "done"
    /\ pc' = "idle"
    /\ entry' = "none"
    /\ args' = <<>>
    /\ client' = NoClient
    /\ call' = NoCall
    /\ pending' = NoRequest
    /\ reqs' = <<>>
    /\ resps' = <<>>
    /\ result' = NoOutcome
    /\ tool' = NoTool
    /\ UNCHANGED pureVars

Init == HttpIdle /\ PureIdle

Next ==
    \/ Call_get_tenant_access_token
    \/ Call_create_task
    \/ Call_update_task
    \/ Call_delete_task
    \/ Call_add_members
    \/ Call_get_userID_from_email_phone
    \/ Invoke_auth
    \/ Invoke_AddMembersTool
    \/ Invoke_CreateTaskTool
    \/ Invoke_UpdateTaskTool
    \/ Invoke_GetUserIDTool
    \/ ReceiveToken
    \/ ReceiveResponse
    \/ NextInvocation

Spec == Init /\ [][Next]_vars

\* ================================================================= claims
\* response envelopes whose code equals 0
CodeZero(r) == r.kind = "json" /\ r.body.code.t = "int" /\ r.body.code.v = 0
ClaimZones == {"Asia/Shanghai", "UTC", "America/New_York"}
PayloadGet(req, key) ==
    LET i == CHOOSE i \in 1..Len(req.payload.d) : req.payload.d[i][1] = key
    IN  req.payload.d[i][2]
\* the date and time the fields denote exist
ValidFields(g) == g.fields /\ g.d <= DaysInMonth(g.y, g.mo) /\ g.s <= 59

\* str(x).strip() of every element, dropping only those whose trimmed text is empty
ClaimedElements(xs) ==
    LET strs == [i \in 1..Len(xs) |-> Strip(PyStr(xs[i]))]
        kept == SelectSeq(strs, LAMBDA s : s # <<>>)
    IN  [i \in 1..Len(kept) |-> PyS(kept[i])]

\* the pieces between separators, the wrapping characters removed
RECURSIVE ClaimedSplit(_, _)
ClaimedSplit(s, cur) ==
    IF s = <<>> THEN <<cur>>
    ELSE IF Head(s) \in {",", ";", "\n"} THEN <<cur>> \o ClaimedSplit(Tail(s), <<>>)
    ELSE IF Head(s) \in {"{", "}", "[", "]", "\"", "'"} THEN ClaimedSplit(Tail(s), cur)
    ELSE ClaimedSplit(Tail(s), Append(cur, Head(s)))

ClaimedPieces(s) ==
    LET trimmed == [i \in 1..Len(ClaimedSplit(s, <<>>)) |-> Strip(ClaimedSplit(s, <<>>)[i])]
        kept == SelectSeq(trimmed, LAMBDA x : x # <<>>)
    IN  [i \in 1..Len(kept) |-> PyS(kept[i])]

ClaimedNormalize(value) ==
    IF value.t = "list" THEN ClaimedElements(value.v)
    ELSE IF value.t = "str" /\ Strip(value.v) # <<>> THEN
        LET r == JsonLoads(Strip(value.v))
        IN  IF r.ok /\ r.val.t = "list" THEN ClaimedElements(r.val.v)
            ELSE ClaimedPieces(value.v)
    ELSE <<>>

\* C1: normalize_list returns the trimmed strings of its input's elements (of a
\* list, or of a string that parses as a JSON list), dropping only those whose
\* trimmed string is empty; of any other non-blank string the trimmed,
\* non-empty comma-separated pieces; of anything else the empty list.
C1_NormalizeListContract ==
    (phase = "done" /\ fn = "normalize_list")
        => out = Returned(PyList(ClaimedNormalize(input.value)))

\* the UTC offset, in seconds, in force in the zone in the month of g
OffsetInForce(tz, g) ==
    CASE tz = "Asia/Shanghai" -> 8 * 3600
      [] tz = "UTC" -> 0
      [] tz = "America/New_York" -> IF g.mo \in {5, 7} THEN -(4 * 3600) ELSE -(5 * 3600)

\* C2: for a time string 'YYYY-MM-DD HH:MM:SS' and a known zone, to_timestamp_str
\* returns the decimal milliseconds since the epoch of the instant at which the
\* zone's wall clock showed that time, with the zone's offset in force that day.
C2_TimestampInZone ==
    (/\ phase = "done"
     /\ fn = "to_timestamp_str"
     /\ ValidFields(gen)
     /\ input.value.v = FormatTime(gen, TRUE)
     /\ input.tz \in ClaimZones)
        => out = Returned(PyS(MillisStr(WallSeconds(gen) - OffsetInForce(input.tz, gen))))

C3_BodyOnlyOnCodeZero ==
    /\ result.kind = "return" =>
        /\ resps # <<>>
        /\ \A i \in 1..Len(resps) : CodeZero(resps[i])
        /\ result.val = resps[Len(resps)].body
    /\ (pc = "done" /\ \E i \in 1..Len(resps) : ~CodeZero(resps[i])) => result.kind = "raise"

C3_Witness ==
    /\ pc = "done"
    /\ call.op = "create_task"
    /\ Len(resps) = 2
    /\ resps[2].kind = "json"
    /\ IsNone(resps[2].body.code)
    /\ result.kind = "raise"

\* C4 as stated: an operation that returns has issued exactly one HTTP call.
C4_OneCallPerOperation == (pc = "done" /\ result.kind = "return") => Len(reqs) = 1

EndpointOf(op) ==
    CASE op = "create_task" -> "/task/v2/tasks"
      [] op = "update_task" -> "/task/v2/tasks/{task_id}"
      [] op = "delete_task" -> "/task/v2/tasks/{task_id}"
      [] op = "add_members" -> "/task/v2/tasks/{task_id}/add_members"
      [] op = "get_userID_from_email_phone" -> "/contact/v3/users/batch_get_id"
      [] op = "get_tenant_access_token" -> TokenUrl.path

\* C4 amended: fetching the access token issues exactly one HTTP call; every
\* other operation that returns has issued exactly two, the token request and
\* then one call to its own endpoint.
C4_CallsPerOperation ==
    (pc = "done" /\ result.kind = "return") =>
        /\ Len(reqs) = (IF call.op = "get_tenant_access_token" THEN 1 ELSE 2)
        /\ reqs[1].url = TokenUrl
        /\ reqs[Len(reqs)].url.path = EndpointOf(call.op)

C4_Witness ==
    /\ pc = "done"
    /\ result.kind = "return"
    /\ call.op = "delete_task"
    /\ Len(reqs) = 2

\* C5: an authenticated request is sent only after the token request made with
\* the client's app id and secret came back with code 0 in the same invocation,
\* and carries the token of that response as its Bearer header; a token request
\* carries no Authorization header; after a failed token request nothing is sent.
C5_TokenBeforeAuthenticated ==
    /\ \A i \in 1..Len(reqs) :
        IF reqs[i].url = TokenUrl THEN reqs[i].auth = NoAuth
        ELSE /\ i > 1
             /\ reqs[i - 1].url = TokenUrl
             /\ reqs[i - 1].payload =
                    Json(<<<<"app_id", client.app_id>>, <<"app_secret", client.app_secret>>>>)
             /\ Len(resps) >= i - 1
             /\ CodeZero(resps[i - 1])
             /\ reqs[i].auth.scheme = "Bearer"
             /\ reqs[i].auth.token = PyStr(resps[i - 1].body.tenant_access_token)
    /\ (resps # <<>> /\ ~CodeZero(resps[1])) => Len(reqs) = 1

C5_Witness ==
    /\ pc = "await_main"
    /\ call.op = "add_members"
    /\ Len(reqs) = 2
    /\ reqs[2].auth = [scheme |-> "Bearer", token |-> TOK.v]

\* C6: no endpoint is requested twice within an invocation, and a failed
\* request (transport error, non-JSON body, code other than 0) is the last
\* request of its invocation, which ends in failure.
C6_NoRetry ==
    /\ \A i, j \in 1..Len(reqs) :
        i # j => ~(reqs[i].url = reqs[j].url /\ reqs[i].method = reqs[j].method)
    /\ \A i \in 1..Len(resps) :
        ~CodeZero(resps[i]) => (Len(reqs) = i /\ pc = "done" /\ result.kind = "raise")

C6_Witness ==
    /\ pc = "done"
    /\ call.op = "update_task"
    /\ Len(reqs) = 1
    /\ Len(resps) = 1
    /\ resps[1].kind = "transport_error"

C8_Invalid(p) ==
    \/ ~Truthy(p.task_guid)
    \/ RoleOf(p) \notin {"assignee", "follower"}
    \/ TypeOf(p) \notin {"user", "app"}
    \/ normalize_list(p.member_ids).val.v = <<>>

\* C8: the add-members tool sends members only under role assignee or
\* follower; with an empty task_guid, another role, a member type other than
\* user or app, or no member id left after normalization it issues no HTTP
\* request and emits one {error: ...} message; it always emits exactly one
\* message and lets no exception escape.
C8_AddMembersTool ==
    entry = "AddMembersTool" =>
        /\ \A i \in 1..Len(reqs) :
            reqs[i].url.path = EndpointOf("add_members") =>
                \A k \in 1..Len(PayloadGet(reqs[i], "members")) :
                    PayloadGet(reqs[i], "members")[k].role \in {"assignee", "follower"}
        /\ C8_Invalid(args) =>
            /\ reqs = <<>>
            /\ pc = "done"
            /\ Len(tool.msgs) = 1
            /\ tool.msgs[1].type = "json"
            /\ tool.msgs[1].error
        /\ pc = "done" => (Len(tool.msgs) = 1 /\ tool.exc = "none")
        /\ pc # "done" => tool.msgs = <<>>

C8_Witness ==
    /\ entry = "AddMembersTool"
    /\ pc = "done"
    /\ Truthy(args.task_guid)
    /\ RoleOf(args) = "owner"
    /\ reqs = <<>>
    /\ Len(tool.msgs) = 1

\* C9: auth returns normally only if app_id and app_secret are not empty, a
\* token came back for them and the time zone (Asia/Shanghai when absent) is
\* known; it raises nothing but ToolProviderCredentialValidationError; without
\* app_id or app_secret it issues no HTTP request; the zone is looked at only
\* once the token request has succeeded.
C9_AuthValidation ==
    (entry = "auth" /\ pc = "done") =>
        LET creds == Truthy(args.app_id) /\ Truthy(args.app_secret)
            tokenOk == /\ Len(resps) = 1
                       /\ CodeZero(resps[1])
                       /\ ~IsNone(resps[1].body.tenant_access_token)
            zone == IF args.has_time_zone THEN args.time_zone ELSE "Asia/Shanghai"
        IN  /\ tool.exc = "none" <=> (creds /\ tokenOk /\ zone \in ClaimZones)
            /\ tool.exc \in {"none", TPCVE}
            /\ ~creds => reqs = <<>>
            /\ creds => /\ Len(reqs) = 1
                        /\ reqs[1].url = TokenUrl
                        /\ reqs[1].payload =
                               Json(<<<<"app_id", args.app_id>>, <<"app_secret", args.app_secret>>>>)
            /\ tool.msg = "Unknown time zone" => tokenOk
            /\ (creds /\ ~tokenOk) => tool.msg = "Failed to validate credentials"

C9_Witness ==
    /\ entry = "auth"
    /\ pc = "done"
    /\ tool.exc = TPCVE
    /\ tool.msg = "Unknown time zone"

ArgFor(a, key) ==
    CASE key = "summary" -> a.summary
      [] key = "description" -> a.description
      [] key = "start" -> a.start_time
      [] key = "due" -> a.due_date
      [] key = "completed_at" -> a.completed_at

PatchRequests == SelectSeq(Append(reqs, pending), LAMBDA r : r.method = "patch")

\* C10: in every PATCH payload of update_task, update_fields lists exactly the
\* keys of the task object, in the order summary, description, start, due,
\* completed_at, a key being there iff its argument is not None; with every
\* optional argument None the request is still sent, both of them empty.
C10_UpdateFields ==
    /\ \A i \in 1..Len(PatchRequests) :
        LET task == PayloadGet(PatchRequests[i], "task")
            fields == PayloadGet(PatchRequests[i], "update_fields")
        IN  /\ fields = SelectSeq(<<"summary", "description", "start", "due", "completed_at">>,
                                  LAMBDA k : ~IsNone(ArgFor(call.a, k)))
            /\ [j \in 1..Len(task) |-> task[j][1]] = fields
    /\ (/\ call.op = "update_task"
        /\ \A k \in {"summary", "description", "start", "due", "completed_at"} :
                IsNone(ArgFor(call.a, k))
        /\ resps # <<>>
        /\ CodeZero(resps[1]))
            => (Len(reqs) = 2 /\ reqs[2].method = "patch")

C10_Witness ==
    /\ entry = "update_task"
    /\ Len(reqs) = 2
    /\ reqs[2].method = "patch"
    /\ PayloadGet(reqs[2], "task") = <<>>
    /\ PayloadGet(reqs[2], "update_fields") = <<>>

====
